---------------------------- MODULE Spec2Model ----------------------------
(***************************************************************************)
(* Model of the two notebooks of the repository:                           *)
(*   - demo/session-3/food-chatflow.ipynb : the menu chatbot, a chain of   *)
(*     four prompted completion calls (SpecChat);                          *)
(*   - the RAG notebook (unnamed/part_000): dataset loading (SpecLoad),    *)
(*     batched indexing of paper titles into a vector store (SpecIndex),   *)
(*     and the retriever test and title suggestion cells run after the     *)
(*     indexing (SpecRetrieve).                                            *)
(* A text is a sequence of one-character strings, so that formatting a     *)
(* template is concatenation and ord() of a character is defined.          *)
(***************************************************************************)
EXTENDS Integers, Sequences, FiniteSets, TLC

VARIABLES
    \* ---- food-chatflow.ipynb ----
    pc,            \* position of the notebook's chain call
    user_query,    \* argument of generate_food_chatbot
    menu_items,    \* argument of generate_food_chatbot
    reasoning,     \* local of generate_food_chatbot
    extraction,    \* local of generate_food_chatbot
    refinement,    \* local of generate_food_chatbot
    verification,  \* local of generate_food_chatbot
    result,        \* value returned by generate_food_chatbot
    raised,        \* exception that left generate_food_chatbot
    inflight,      \* request the completion endpoint has not answered yet
    callLog,       \* generate_response invocations of the current chain call
    lastResponse,  \* last response object of the endpoint
    lastReturned,  \* last value returned by generate_response
    requests,      \* requests the endpoint has received since the kernel started
    reqAtStart,    \* value of requests when the current chain call started
    history,       \* arguments of the chain calls made so far
    prevLog,       \* the previous chain call: prompt and given text of extraction and refinement
    \* ---- RAG notebook: loading ----
    csv_rows,      \* rows of the dataset file, cells as written in the file
    load_pc,       \* which loading cells have run
    ml_papers,     \* the dataframe
    ml_papers_dict, \* the list of records
    \* ---- RAG notebook: indexing ----
    index_pc,      \* position of the indexing cell
    run,           \* how often the indexing cell has been started
    i,             \* loop variable of the indexing loop
    batch,         \* locals of the loop body
    batch_titles,
    batch_ids,
    batch_metadata,
    batch_embeddings,
    draws,         \* the random offsets drawn for batch_ids, per record and character
    collection,    \* documents of the vector store's collection
    before,        \* the collection as it was before the last upsert
    handed,        \* per record: how often this run handed it to upsert
    run_ids,       \* per run: the ids given to the records, in order
    index_error,   \* exception that ended the indexing cell
    rag_inflight,  \* library and network calls of the RAG notebook that have not returned
    index_log,     \* this run's starts and ends of the encode and upsert calls
    \* ---- RAG notebook: retrieval and title suggestion ----
    rag_pc,        \* position of the retrieval cells
    query_texts,   \* arguments of the last collection.query call
    n_results,
    query_embeddings, \* the embeddings that call computed for its query texts
    retriever_results, \* result of the query of the retriever test
    rag_user_query, \* user_query of the title suggestion cell
    results,       \* globals of the title suggestion cell
    short_titles,
    prompt_template,
    responses,
    suggested_titles,
    rag_raised     \* exception that ended the title suggestion cell

chatVars == <<pc, user_query, menu_items, reasoning, extraction, refinement,
              verification, result, raised, inflight, callLog, lastResponse,
              lastReturned, requests, reqAtStart, history, prevLog>>

loadVars == <<csv_rows, load_pc, ml_papers>>

indexLocals == <<index_pc, run, i, batch, batch_titles, batch_ids,
                 batch_metadata, batch_embeddings, draws, collection, before,
                 handed, run_ids, index_error, index_log>>

indexVars == <<indexLocals, rag_inflight>>

retrieveVars == <<rag_pc, query_texts, n_results, query_embeddings,
                  retriever_results, rag_user_query, results, short_titles,
                  prompt_template, responses, suggested_titles, rag_raised>>

ragVars == <<loadVars, ml_papers_dict, indexVars, retrieveVars>>

vars == <<chatVars, ragVars>>

\* no exception
None == "None"
\* a local that is not bound yet (no text holds this token)
Unbound == <<"<unbound>">>
\* Python values the chain can hand to its caller
PyNone == [type |-> "NoneType", data |-> <<>>]
PyStr(text) == [type |-> "str", data |-> text]
\* a query result that is not bound yet
NoResults == [ids |-> <<>>, documents |-> <<>>, distances |-> <<>>]

----------------------------------------------------------------------------
(* Bounds of the chat model *)

\* chain calls made from the notebook
MaxChainCalls == 2
\* choices a completion response may hold
MaxChoices == 2

\* user queries: about food / not about food
Queries == { <<"f">>, <<"x">> }
\* menu texts
Menus == { <<"m">>, <<"n">> }
\* the refusal the reasoning prompt asks for when the query is not about food
SorryText == <<"S">>
\* texts the model may generate
ResponseTexts == { SorryText, <<"a">> }

\* exceptions of the provider's client library: network, authentication, rate limit
ProviderErrors == { "APIConnectionError", "AuthenticationError", "RateLimitError" }

SeqsUpTo(S, n) == UNION { [1..k -> S] : k \in 0..n }

\* response objects: 1..MaxChoices choices, each with a message content
Responses ==
    { [choices |-> [k \in 1..Len(cs) |-> [message |-> [content |-> cs[k]]]]] :
        cs \in (SeqsUpTo(ResponseTexts, MaxChoices) \ { <<>> }) }

----------------------------------------------------------------------------
(* food-chatflow.ipynb: prompt templates.  A template is the sequence of   *)
(* its literal parts (one token each) around the formatted arguments.      *)

ReasoningPrompt(request, menu) ==
    <<"[reasoning:head]">> \o request \o <<"[reasoning:menu]">> \o menu
        \o <<"[reasoning:tail]">>

ExtractionPromptWithQuery(reasoning_text) ==
    <<"[extraction:head]">> \o user_query \o reasoning_text
        \o <<".", "[extraction:tail]">>

ExtractionPrompt(reasoning_text) ==
    <<"[extraction:head]">> \o reasoning_text \o <<".", "[extraction:tail]">>

RefinementPrompt(final_response) ==
    <<"[refinement:head]">> \o final_response \o <<"[refinement:tail]">>

VerificationPromptWithoutQuestion(user_question, refined_response, menu) ==
    <<"[verification:head]">> \o refined_response \o <<"[verification:refined]">>
        \o refined_response \o <<"[verification:menu]">> \o menu
        \o <<"[verification:tail]">>

VerificationPrompt(user_question, refined_response, menu) ==
    <<"[verification:head]">> \o user_question \o <<"[verification:refined]">>
        \o refined_response \o <<"[verification:menu]">> \o menu
        \o <<"[verification:tail]">>

(* generate_response: the request it creates and the value it returns *)

ChatModel == "gpt-4o"

CreateRequestsTwice(prompt) ==
    LET req == [model |-> ChatModel,
                messages |-> << [role |-> "user", content |-> prompt] >>]
    IN  <<req, req>>

\* the requests one call of generate_response(prompt) sends to the endpoint
CreateRequests(prompt) ==
    << [model |-> ChatModel,
        messages |-> << [role |-> "user", content |-> prompt] >>] >>

\* response.choices[0].message.content
FirstChoiceContent(response) == response.choices[1].message.content

WrapInCompletionError(err) == "CompletionError"

\* generate_response has no try/except: the library's exception leaves it as it is
PropagatedError(err) == err

(* generate_food_chatbot: the order of the stages and their arguments *)

Stages == <<"reasoning", "extraction", "refinement", "verification">>

StageIndex(stage) == CHOOSE k \in 1..Len(Stages) : Stages[k] = stage

NextStageEarlyExit(stage, text) ==
    IF stage = "reasoning" /\ text = SorryText THEN "done"
    ELSE IF stage = "verification" THEN "done"
    ELSE Stages[StageIndex(stage) + 1]

\* the statement that follows the return of a stage
NextStage(stage, text) ==
    IF stage = "verification" THEN "done" ELSE Stages[StageIndex(stage) + 1]

RetryStage(stage) == stage

\* where generate_food_chatbot continues when the call of a stage raises
OnStageFailure(stage) == "raised"

\* extraction_step(reasoning)
ExtractionArg == reasoning

\* refinement_step(extraction)
RefinementArg == extraction

VerificationArgIsExtraction == extraction

\* the refined_response argument of verification_step(user_query, refinement, menu_items)
VerificationArg == refinement

\* the stages that are called with the text of the previous stage alone
SingleInputStages == {"extraction", "refinement"}

\* what those stages of a chain call were given: per generate_response
\* invocation the stage, its prompt and the text the previous stage returned
StageInputs(log) ==
    LET ks == { k \in 1..Len(log) : log[k].stage \in SingleInputStages }
    IN  [n \in 1..Cardinality(ks) |->
            LET k == CHOOSE c \in ks : Cardinality({ b \in ks : b <= c }) = n
            IN  [stage |-> log[k].stage, prompt |-> log[k].prompt,
                 given |-> log[k - 1].returned]]

\* IPython.display.Markdown(text): a display object holding the text
Markdown(text) == [type |-> "Markdown", data |-> text]

ReturnValueRefinement == Markdown(refinement')

\* return IPython.display.Markdown(verification)
ReturnValue == Markdown(verification')

----------------------------------------------------------------------------
(* food-chatflow.ipynb: actions *)

\* neither notebook has run a cell
KernelStart ==
    /\ pc = "idle"
    /\ user_query = Unbound /\ menu_items = Unbound
    /\ reasoning = Unbound /\ extraction = Unbound
    /\ refinement = Unbound /\ verification = Unbound
    /\ result = PyNone /\ raised = None
    /\ inflight = <<>>
    /\ callLog = <<>>
    /\ lastResponse = <<>> /\ lastReturned = Unbound
    /\ requests = 0 /\ reqAtStart = 0
    /\ history = <<>> /\ prevLog = <<>>
    /\ csv_rows = <<>>
    /\ load_pc = "start"
    /\ ml_papers = <<>>
    /\ ml_papers_dict = <<>>
    /\ index_pc = "idle" /\ run = 0 /\ i = 0
    /\ batch = <<>> /\ batch_titles = <<>> /\ batch_ids = <<>>
    /\ batch_metadata = <<>> /\ batch_embeddings = <<>> /\ draws = <<>>
    /\ collection = {} /\ before = {}
    /\ handed = <<>> /\ run_ids = << <<>>, <<>> >>
    /\ index_error = None
    /\ rag_inflight = <<>> /\ index_log = <<>>
    /\ rag_pc = "idle" /\ query_texts = <<>> /\ n_results = 0
    /\ query_embeddings = <<>>
    /\ retriever_results = NoResults /\ results = NoResults
    /\ rag_user_query = Unbound /\ short_titles = Unbound
    /\ prompt_template = Unbound /\ responses = Unbound
    /\ suggested_titles = Unbound /\ rag_raised = None

ChatInit == KernelStart

\* the notebook calls generate_food_chatbot(q, m)
generate_food_chatbot(q, m) ==
    /\ pc \in {"idle", "done", "raised"}
    /\ Len(history) < MaxChainCalls
    /\ user_query' = q /\ menu_items' = m
    /\ reasoning' = Unbound /\ extraction' = Unbound
    /\ refinement' = Unbound /\ verification' = Unbound
    /\ result' = PyNone /\ raised' = None
    /\ callLog' = <<>>
    /\ reqAtStart' = requests
    /\ history' = Append(history, [user_query |-> q, menu_items |-> m])
    /\ prevLog' = StageInputs(callLog)
    /\ lastResponse' = <<>> /\ lastReturned' = Unbound
    /\ pc' = "reasoning"
    /\ UNCHANGED <<inflight, requests>>
    /\ UNCHANGED ragVars

\* response = generate_response(prompt), up to the request: the current stage
\* hands its prompt to generate_response, which sends it to the endpoint
call_generate_response(prompt) ==
    /\ inflight = <<>>
    /\ LET reqs == CreateRequests(prompt)
       IN  /\ inflight' = <<reqs[Len(reqs)]>>
           /\ requests' = requests + Len(reqs)
           /\ callLog' = Append(callLog,
                  [stage |-> pc, prompt |-> prompt, sent |-> reqs,
                   returned |-> Unbound, error |-> None])
    /\ UNCHANGED <<pc, user_query, menu_items, reasoning, extraction, refinement,
                   verification, result, raised, lastResponse, lastReturned,
                   reqAtStart, history, prevLog>>
    /\ UNCHANGED ragVars

reasoning_step ==
    /\ pc = "reasoning"
    /\ call_generate_response(ReasoningPrompt(user_query, menu_items))

extraction_step ==
    /\ pc = "extraction"
    /\ call_generate_response(ExtractionPrompt(ExtractionArg))

refinement_step ==
    /\ pc = "refinement"
    /\ call_generate_response(RefinementPrompt(RefinementArg))

verification_step ==
    /\ pc = "verification"
    /\ call_generate_response(
          VerificationPrompt(user_query, VerificationArg, menu_items))

\* the endpoint answers; generate_response and the stage return the text
generate_response_return(response) ==
    /\ inflight # <<>>
    /\ LET text == FirstChoiceContent(response)
           next == NextStage(pc, text)
       IN  /\ lastResponse' = <<response>>
           /\ lastReturned' = text
           /\ callLog' = [callLog EXCEPT ![Len(callLog)].returned = text]
           /\ reasoning'    = IF pc = "reasoning"    THEN text ELSE reasoning
           /\ extraction'   = IF pc = "extraction"   THEN text ELSE extraction
           /\ refinement'   = IF pc = "refinement"   THEN text ELSE refinement
           /\ verification' = IF pc = "verification" THEN text ELSE verification
           /\ pc' = next
           /\ result' = IF next = "done" THEN ReturnValue ELSE result
    /\ inflight' = <<>>
    /\ UNCHANGED <<user_query, menu_items, raised, requests, reqAtStart, history,
                   prevLog>>
    /\ UNCHANGED ragVars

\* the provider fails; the exception leaves generate_response, the stage and the chain
generate_response_raise(err) ==
    /\ inflight # <<>>
    /\ raised' = PropagatedError(err)
    /\ pc' = OnStageFailure(pc)
    /\ callLog' = [callLog EXCEPT ![Len(callLog)].error = err]
    /\ inflight' = <<>>
    /\ UNCHANGED <<user_query, menu_items, reasoning, extraction, refinement,
                   verification, result, lastResponse, lastReturned,
                   requests, reqAtStart, history, prevLog>>
    /\ UNCHANGED ragVars

ChatNext ==
    \/ \E q \in Queries, m \in Menus : generate_food_chatbot(q, m)
    \/ reasoning_step
    \/ extraction_step
    \/ refinement_step
    \/ verification_step
    \/ \E response \in Responses : generate_response_return(response)
    \/ \E err \in ProviderErrors : generate_response_raise(err)

SpecChat == ChatInit /\ [][ChatNext]_vars

\* the interpreter goes on with the next statement and the endpoint answers
\* every request, with a response or with an error
SpecChatFair == SpecChat /\ WF_vars(ChatNext)

----------------------------------------------------------------------------
(* food-chatflow.ipynb: properties *)

\* the arguments the current chain call was made with
CallArgs == history[Len(history)]

\* the stages that generate_response was invoked for, in order
LoggedStages == [k \in 1..Len(callLog) |-> callLog[k].stage]

\* the prompt the k-th stage gets when the four step functions are called by
\* hand, each on the text the previous one returned
ExplicitPrompt(k) ==
    CASE k = 1 -> ReasoningPrompt(CallArgs.user_query, CallArgs.menu_items)
      [] k = 2 -> ExtractionPrompt(callLog[1].returned)
      [] k = 3 -> RefinementPrompt(callLog[2].returned)
      [] k = 4 -> VerificationPrompt(CallArgs.user_query, callLog[3].returned,
                                     CallArgs.menu_items)

\* C1: in every chain call (the first or a later one) each stage sends the
\* prompt that the explicit composition reasoning_step, extraction_step,
\* refinement_step, verification_step sends, built from the call's arguments
\* and the text the previous stage returned and from nothing else, and the
\* chain's locals are the texts the stages returned.
C1_ChainIsComposition ==
    /\ \A k \in 1..Len(callLog) : callLog[k].prompt = ExplicitPrompt(k)
    /\ Len(callLog) <= 4
    /\ pc = "done" =>
          /\ Len(callLog) = 4
          /\ reasoning = callLog[1].returned
          /\ extraction = callLog[2].returned
          /\ refinement = callLog[3].returned
          /\ verification = callLog[4].returned

\* a second chain call has finished after a first one with other arguments,
\* and its refinement differs from its extraction
C1_Witness ==
    /\ pc = "done"
    /\ Len(history) = 2
    /\ history[1] # history[2]
    /\ extraction = SorryText
    /\ refinement = <<"a">>

\* C2: the stages run in the order reasoning, extraction, refinement,
\* verification, none twice and none skipped; a finished chain call has made
\* exactly four completion requests, whatever the reasoning text says.
C2_StrictLinearChain ==
    /\ Len(callLog) <= Len(Stages)
    /\ \A k \in 1..Len(callLog) : LoggedStages[k] = Stages[k]
    /\ pc = "done" =>
          /\ LoggedStages = Stages
          /\ requests - reqAtStart = 4
          /\ \A k \in 1..4 : callLog[k].error = None

\* the second of two chain calls with the same arguments has finished, the
\* reasoning text was the refusal, and the endpoint has received eight requests
C2_Witness ==
    /\ pc = "done"
    /\ Len(history) = 2
    /\ history[1] = history[2]
    /\ reasoning = SorryText
    /\ requests = 8

\* C3 as claimed: the value generate_food_chatbot returns is the text that
\* verification_step produced.
C3_ReturnsVerificationText ==
    pc = "done" => result = PyStr(callLog[4].returned)

\* C3 (amended): the value generate_food_chatbot returns is a Markdown display
\* object whose data is the text that verification_step produced; nothing is
\* returned before the verification stage has returned.
C3_ReturnsMarkdownOfVerification ==
    /\ pc = "done" =>
          /\ callLog[4].stage = "verification"
          /\ result = Markdown(callLog[4].returned)
    /\ pc # "done" => result = PyNone

\* a chain call has finished whose verification text differs from the text of
\* every earlier stage
C3_Witness ==
    /\ pc = "done"
    /\ reasoning = SorryText /\ extraction = SorryText /\ refinement = SorryText
    /\ verification = <<"a">>

\* C4 as claimed: a failure of the provider reaches the caller as a
\* CompletionError.
C4_FailsWithCompletionError ==
    raised # None => raised = "CompletionError"

\* C4 (amended): a failure of the provider reaches the caller of the chain as
\* the very exception the client library raised (network, authentication or
\* rate limit), and the chain returns nothing.
C4_ProviderErrorPropagates ==
    /\ raised # None =>
          /\ pc = "raised"
          /\ raised \in ProviderErrors
          /\ raised = callLog[Len(callLog)].error
          /\ result = PyNone
    /\ pc = "raised" => raised # None

\* the provider has answered a request with a rate-limit error
C4_Witness ==
    /\ pc = "raised"
    /\ callLog[Len(callLog)].error = "RateLimitError"

\* C5: when the completion call of a stage fails, the chain stops there: the
\* failed request is the last one sent (it is not sent again and no later
\* stage sends one), every earlier request had succeeded, and no value is
\* returned.
C5_NoRetryNoRecovery ==
    /\ raised # None => pc = "raised"
    /\ pc = "raised" =>
          LET k == Len(callLog) IN
          /\ k \in 1..4
          /\ callLog[k].error # None
          /\ \A j \in 1..(k - 1) : callLog[j].error = None
          /\ \A j \in 1..k : callLog[j].stage = Stages[j]
          /\ requests - reqAtStart = k
          /\ inflight = <<>>
          /\ result = PyNone

\* the refinement call failed after reasoning and extraction had succeeded
C5_Witness ==
    /\ pc = "raised"
    /\ Len(callLog) = 3
    /\ callLog[3].stage = "refinement"
    /\ verification = Unbound

\* C6: every call of generate_response(prompt) sends exactly one request, to
\* the model "gpt-4o", whose messages are the single user message holding the
\* prompt unchanged, and returns the content of the first choice of the
\* response.
C6_OneSingleTurnRequest ==
    /\ \A k \in 1..Len(callLog) :
          callLog[k].sent =
              << [model |-> "gpt-4o",
                  messages |-> << [role |-> "user",
                                   content |-> callLog[k].prompt] >>] >>
    /\ requests - reqAtStart = Len(callLog)
    /\ lastResponse # <<>> =>
          /\ lastReturned = lastResponse[1].choices[1].message.content
          /\ callLog[Len(callLog)].error = None =>
                callLog[Len(callLog)].returned \in {Unbound, lastReturned}

\* a response with two different choices was received and the first was returned
C6_Witness ==
    /\ lastResponse # <<>>
    /\ Len(lastResponse[1].choices) = 2
    /\ lastResponse[1].choices[1] # lastResponse[1].choices[2]
    /\ lastReturned = lastResponse[1].choices[1].message.content
    /\ reasoning = lastReturned

\* C16: from the start of a chain call on, user_query and menu_items hold the
\* arguments the call was made with, whatever stage has run, and the prompt
\* of the verification stage holds, in the template's three places, that user
\* query, the text the refinement stage returned and that menu text.
C16_FixedInputsUnchanged ==
    history # <<>> =>
        /\ user_query = CallArgs.user_query
        /\ menu_items = CallArgs.menu_items
        /\ \A k \in 1..Len(callLog) :
              callLog[k].stage = "verification" =>
                 LET p == callLog[k].prompt
                     q == CallArgs.user_query
                     f == callLog[k - 1].returned
                     m == CallArgs.menu_items
                 IN  /\ callLog[k - 1].stage = "refinement"
                     /\ f = refinement
                     /\ Len(p) = 4 + Len(q) + Len(f) + Len(m)
                     /\ SubSeq(p, 2, 1 + Len(q)) = q
                     /\ SubSeq(p, 3 + Len(q), 2 + Len(q) + Len(f)) = f
                     /\ SubSeq(p, 4 + Len(q) + Len(f),
                               3 + Len(q) + Len(f) + Len(m)) = m

\* a second chain call, made with another query and another menu than the
\* first, has finished; its refinement text differs from its extraction text
C16_Witness ==
    /\ pc = "done"
    /\ Len(history) = 2
    /\ history[1].user_query # history[2].user_query
    /\ history[1].menu_items # history[2].menu_items
    /\ Len(callLog) = 4
    /\ callLog[4].stage = "verification"
    /\ refinement # extraction
    /\ user_query = history[2].user_query
    /\ menu_items = history[2].menu_items

\* the entries of a log of stage inputs that belong to a stage
EntriesOf(log, stage) == { k \in 1..Len(log) : log[k].stage = stage }

\* C17: whenever the current chain call and the previous one gave the
\* extraction stage the same reasoning text, both sent the same extraction
\* prompt, and whenever they gave the refinement stage the same extraction
\* text, both sent the same refinement prompt, whatever the user queries and
\* menus of the two calls were.
C17_PromptDependsOnPreviousOutputOnly ==
    \A stage \in SingleInputStages :
        \A k \in EntriesOf(callLog, stage) :
            \A j \in EntriesOf(prevLog, stage) :
                callLog[k - 1].returned = prevLog[j].given =>
                    callLog[k].prompt = prevLog[j].prompt

\* two chain calls with different user queries and different menus had the
\* same reasoning text and the same extraction text, and the second has sent
\* its refinement prompt
C17_Witness ==
    /\ Len(history) = 2
    /\ history[1].user_query # history[2].user_query
    /\ history[1].menu_items # history[2].menu_items
    /\ Len(prevLog) = 2 /\ Len(callLog) >= 3
    /\ prevLog[1].stage = "extraction" /\ prevLog[1].given = reasoning
    /\ prevLog[2].stage = "refinement" /\ prevLog[2].given = extraction
    /\ callLog[2].prompt = prevLog[1].prompt
    /\ callLog[3].prompt = prevLog[2].prompt

----------------------------------------------------------------------------
(* RAG notebook, step 1: loading the dataset *)

\* rows of the file and records of the list
MaxRecords == 3

\* a missing value of the dataframe (float NaN; no text holds this token)
NaN == <<"<NaN>">>

\* the cell texts that pandas.read_csv reads as a missing value by default
NA_VALUES ==
    { <<>>,
      <<"#", "N", "/", "A">>,
      <<"#", "N", "/", "A", " ", "N", "/", "A">>,
      <<"#", "N", "A">>,
      <<"-", "1", ".", "#", "I", "N", "D">>,
      <<"-", "1", ".", "#", "Q", "N", "A", "N">>,
      <<"-", "N", "a", "N">>,
      <<"-", "n", "a", "n">>,
      <<"1", ".", "#", "I", "N", "D">>,
      <<"1", ".", "#", "Q", "N", "A", "N">>,
      <<"<", "N", "A", ">">>,
      <<"N", "/", "A">>,
      <<"N", "A">>,
      <<"N", "U", "L", "L">>,
      <<"N", "a", "N">>,
      <<"N", "o", "n", "e">>,
      <<"n", "/", "a">>,
      <<"n", "a", "n">>,
      <<"n", "u", "l", "l">> }

\* cell texts of the Title column: empty, a missing-value marker, a title
TitleCells == { <<>>, <<"N", "A">>, <<"a">> }
\* cell texts of the Description column
DescriptionCells == { <<>>, <<"d">> }
\* cell texts of the Abstract column
AbstractCells == { <<>>, <<"x">> }

CsvRows ==
    [Title : TitleCells, Description : DescriptionCells, PaperURL : { <<"u">> },
     TweetURL : { <<"w">> }, Abstract : AbstractCells]

\* the value read_csv gives a cell
ParseCell(cell) == IF cell \in NA_VALUES THEN NaN ELSE cell

\* pd.read_csv(path, header=0): one dataframe row per file row, labelled by position
read_csv(rows) ==
    [k \in 1..Len(rows) |->
        [index |-> k - 1,
         Title |-> ParseCell(rows[k].Title),
         Description |-> ParseCell(rows[k].Description),
         PaperURL |-> ParseCell(rows[k].PaperURL),
         TweetURL |-> ParseCell(rows[k].TweetURL),
         Abstract |-> ParseCell(rows[k].Abstract)]]

RECURSIVE SelectSeq2(_, _)
\* the subsequence of the rows that satisfy keep (the order is kept)
SelectSeq2(rows, keep) ==
    IF rows = <<>> THEN <<>>
    ELSE IF keep[1] THEN <<Head(rows)>> \o SelectSeq2(Tail(rows), Tail(keep))
    ELSE SelectSeq2(Tail(rows), Tail(keep))

\* df.dropna(subset=["Title", "Description"])
dropna(df) ==
    SelectSeq2(df, [k \in 1..Len(df) |->
                      df[k].Title # NaN /\ df[k].Description # NaN])

\* df.to_dict(orient="records"): the rows without their labels
to_dict(df) ==
    [k \in 1..Len(df) |->
        [Title |-> df[k].Title, Description |-> df[k].Description,
         PaperURL |-> df[k].PaperURL, TweetURL |-> df[k].TweetURL,
         Abstract |-> df[k].Abstract]]

\* the dataset file holds any rows; no cell has run
LoadInit ==
    /\ pc = "idle"
    /\ user_query = Unbound /\ menu_items = Unbound
    /\ reasoning = Unbound /\ extraction = Unbound
    /\ refinement = Unbound /\ verification = Unbound
    /\ result = PyNone /\ raised = None
    /\ inflight = <<>>
    /\ callLog = <<>>
    /\ lastResponse = <<>> /\ lastReturned = Unbound
    /\ requests = 0 /\ reqAtStart = 0
    /\ history = <<>> /\ prevLog = <<>>
    /\ csv_rows \in SeqsUpTo(CsvRows, MaxRecords)
    /\ load_pc = "start"
    /\ ml_papers = <<>>
    /\ ml_papers_dict = <<>>
    /\ index_pc = "idle" /\ run = 0 /\ i = 0
    /\ batch = <<>> /\ batch_titles = <<>> /\ batch_ids = <<>>
    /\ batch_metadata = <<>> /\ batch_embeddings = <<>> /\ draws = <<>>
    /\ collection = {} /\ before = {}
    /\ handed = <<>> /\ run_ids = << <<>>, <<>> >>
    /\ index_error = None
    /\ rag_inflight = <<>> /\ index_log = <<>>
    /\ rag_pc = "idle" /\ query_texts = <<>> /\ n_results = 0
    /\ query_embeddings = <<>>
    /\ retriever_results = NoResults /\ results = NoResults
    /\ rag_user_query = Unbound /\ short_titles = Unbound
    /\ prompt_template = Unbound /\ responses = Unbound
    /\ suggested_titles = Unbound /\ rag_raised = None

\* the cell that reads the file and drops the rows with missing values
load_dataset ==
    /\ load_pc = "start"
    /\ ml_papers' = dropna(read_csv(csv_rows))
    /\ load_pc' = "loaded"
    /\ UNCHANGED <<csv_rows, ml_papers_dict>>
    /\ UNCHANGED <<chatVars, indexVars, retrieveVars>>

\* the cell that converts the dataframe to a list of records
convert_to_records ==
    /\ load_pc = "loaded"
    /\ ml_papers_dict' = to_dict(ml_papers)
    /\ load_pc' = "converted"
    /\ UNCHANGED <<csv_rows, ml_papers>>
    /\ UNCHANGED <<chatVars, indexVars, retrieveVars>>

LoadNext ==
    \/ load_dataset
    \/ convert_to_records

SpecLoad == LoadInit /\ [][LoadNext]_vars

\* the labels of the rows the dataframe holds
RetainedLabels == { ml_papers[j].index : j \in 1..Len(ml_papers) }

\* C7: once the dataset is loaded, a file row is retained iff its title and
\* its description are both non-empty, the retained rows are in file order,
\* and their number is the number of file rows minus the number dropped.
C7_RetainedIffNonEmpty ==
    load_pc # "start" =>
        /\ \A k \in 1..Len(csv_rows) :
              (k - 1) \in RetainedLabels <=>
                  (csv_rows[k].Title # <<>> /\ csv_rows[k].Description # <<>>)
        /\ \A j \in 1..(Len(ml_papers) - 1) :
              ml_papers[j].index < ml_papers[j + 1].index
        /\ Len(ml_papers) =
              Len(csv_rows) - Cardinality({ k \in 1..Len(csv_rows) :
                                              (k - 1) \notin RetainedLabels })

\* what the loader does: a row is retained iff neither its title nor its
\* description is read as a missing value (the retained rows are in file order)
LoaderRetainsIffNotMissing ==
    load_pc # "start" =>
        /\ \A k \in 1..Len(csv_rows) :
              (k - 1) \in RetainedLabels <=>
                  (csv_rows[k].Title \notin NA_VALUES
                   /\ csv_rows[k].Description \notin NA_VALUES)
        /\ \A j \in 1..(Len(ml_papers) - 1) :
              ml_papers[j].index < ml_papers[j + 1].index
        /\ Len(ml_papers) = Cardinality(RetainedLabels)

----------------------------------------------------------------------------
(* RAG notebook, step 2: indexing the titles in batches *)

\* batch_size of the notebook is 50; the loop is the same for every batch
\* size and is checked here for a small one
batch_size == 2

\* random.randint(1, 10000)
RandLo == 1
RandHi == 10000
\* the offsets a draw is taken from: the two lowest of RandLo..RandHi
RandintSamples == { r \in { RandLo, RandLo + 1 } : r <= RandHi }

\* records of the list after loading: title and description are texts, the
\* abstract may be missing
PaperRecords ==
    { [Title |-> <<"a">>, Description |-> <<"d">>, PaperURL |-> <<"u">>,
       TweetURL |-> <<"w">>, Abstract |-> <<"x">>],
      [Title |-> <<"b">>, Description |-> <<"d">>, PaperURL |-> <<"v">>,
       TweetURL |-> <<"w">>, Abstract |-> NaN],
      [Title |-> <<"a", "b">>, Description |-> <<"d">>, PaperURL |-> <<"u">>,
       TweetURL |-> <<"w">>, Abstract |-> <<"x">>] }

Min(x, y) == IF x <= y THEN x ELSE y

\* ord(c)
Ord(c) ==
    CASE c = "a" -> 97
      [] c = "b" -> 98

Digits == <<"0", "1", "2", "3", "4", "5", "6", "7", "8", "9">>

RECURSIVE IntToStr(_)
\* str(n) of a natural number: its decimal digits
IntToStr(n) ==
    IF n < 10 THEN <<Digits[n + 1]>>
    ELSE IntToStr(n \div 10) \o <<Digits[(n % 10) + 1]>>

RECURSIVE SumSeq(_)
\* sum(...) of a sequence of numbers
SumSeq(xs) == IF xs = <<>> THEN 0 ELSE Head(xs) + SumSeq(Tail(xs))

PaperIdWithoutOffsets(title, offsets) ==
    IntToStr(SumSeq([k \in 1..Len(title) |-> Ord(title[k])]))

\* str(sum(ord(c) + random.randint(1, 10000) for c in paper["Title"]))
PaperId(title, offsets) ==
    IntToStr(SumSeq([k \in 1..Len(title) |-> Ord(title[k]) + offsets[k]]))

NoTitle == <<"N", "o", " ", "T", "i", "t", "l", "e">>

BatchTitleAsIs(paper) == paper.Title

\* str(paper["Title"]) if str(paper["Title"]) != "" else "No Title"
BatchTitle(paper) == IF paper.Title # <<>> THEN paper.Title ELSE NoTitle

\* dict(url=paper["PaperURL"], abstract=paper['Abstract'])
BatchMetadata(paper) == [url |-> paper.PaperURL, abstract |-> paper.Abstract]

\* how often a character occurs in a text
CountChar(text, c) == Cardinality({ k \in 1..Len(text) : text[k] = c })

\* embedding_model.encode(text): a vector of fixed length that depends on the
\* text alone
Encode(text) == << CountChar(text, "a"), CountChar(text, "b") >>

BatchSliceShort(records, start) ==
    SubSeq(records, start + 1, Min(start + batch_size, Len(records)) - 1)

\* ml_papers_dict[i : i + batch_size]
BatchSlice(records, start) ==
    SubSeq(records, start + 1, Min(start + batch_size, Len(records)))

NextIndexStuck(start) == start

\* the next value of range(0, len(ml_papers_dict), batch_size) after start
NextIndex(start) == start + batch_size

\* the offsets that can be drawn for the records of a batch: one per character
DrawChoices(papers) ==
    { d \in [1..Len(papers) ->
                UNION { [1..n -> RandintSamples] :
                          n \in { Len(papers[j].Title) : j \in 1..Len(papers) } }] :
        \A j \in 1..Len(papers) : Len(d[j]) = Len(papers[j].Title) }

\* the documents an upsert call describes
UpsertDocs(ids, metadatas, documents, embeddings) ==
    { [id |-> ids[j], document |-> documents[j], embedding |-> embeddings[j],
       metadata |-> metadatas[j]] : j \in 1..Len(ids) }

HasDuplicatesAccepted(ids) == FALSE

\* the vector store rejects a call whose ids are not pairwise different
HasDuplicates(ids) ==
    \E j, k \in 1..Len(ids) : j # k /\ ids[j] = ids[k]

UpsertAsAdd(coll, ids, metadatas, documents, embeddings) ==
    coll \cup UpsertDocs(ids, metadatas, documents, embeddings)

\* collection.upsert(ids, metadatas, documents, embeddings): a stored document
\* with one of the ids is replaced, the other documents are added
Upsert(coll, ids, metadatas, documents, embeddings) ==
    { d \in coll : \A j \in 1..Len(ids) : d.id # ids[j] }
        \cup UpsertDocs(ids, metadatas, documents, embeddings)

\* a call is made: it is in flight until it returns or raises
Issue(calls, call) == Append(calls, call)

SettleNothing(calls) == calls

\* the call made last returns or raises
Settle(calls) == SubSeq(calls, 1, Len(calls) - 1)

EncodeTextsStale(texts) == batch_embeddings

EncodeTextsReversed(texts) ==
    [j \in 1..Len(texts) |-> Encode(texts[Len(texts) + 1 - j])]

\* embedding_model.encode(texts).tolist(): one vector per text
EncodeTexts(texts) == [j \in 1..Len(texts) |-> Encode(texts[j])]

\* an entry of index_log: a call of the loop body starts or ends
Event(op, ev, at) == [op |-> op, ev |-> ev, at |-> at]

\* the list of records is any list the loader can produce; the store is empty
IndexInit ==
    /\ pc = "idle"
    /\ user_query = Unbound /\ menu_items = Unbound
    /\ reasoning = Unbound /\ extraction = Unbound
    /\ refinement = Unbound /\ verification = Unbound
    /\ result = PyNone /\ raised = None
    /\ inflight = <<>>
    /\ callLog = <<>>
    /\ lastResponse = <<>> /\ lastReturned = Unbound
    /\ requests = 0 /\ reqAtStart = 0
    /\ history = <<>> /\ prevLog = <<>>
    /\ csv_rows = <<>>
    /\ load_pc = "converted"
    /\ ml_papers = <<>>
    /\ ml_papers_dict \in SeqsUpTo(PaperRecords, MaxRecords)
    /\ index_pc = "idle" /\ run = 0 /\ i = 0
    /\ batch = <<>> /\ batch_titles = <<>> /\ batch_ids = <<>>
    /\ batch_metadata = <<>> /\ batch_embeddings = <<>> /\ draws = <<>>
    /\ collection = {} /\ before = {}
    /\ handed = <<>> /\ run_ids = << <<>>, <<>> >>
    /\ index_error = None
    /\ rag_inflight = <<>> /\ index_log = <<>>
    /\ rag_pc = "idle" /\ query_texts = <<>> /\ n_results = 0
    /\ query_embeddings = <<>>
    /\ retriever_results = NoResults /\ results = NoResults
    /\ rag_user_query = Unbound /\ short_titles = Unbound
    /\ prompt_template = Unbound /\ responses = Unbound
    /\ suggested_titles = Unbound /\ rag_raised = None

\* the loop is entered: range(0, len(ml_papers_dict), batch_size) starts at 0
enter_loop ==
    /\ run' = run + 1
    /\ i' = 0
    /\ handed' = [k \in 1..Len(ml_papers_dict) |-> 0]
    /\ index_log' = <<>>
    /\ index_pc' = "loop"
    /\ UNCHANGED <<batch, batch_titles, batch_ids, batch_metadata,
                   batch_embeddings, draws, collection, before, run_ids,
                   index_error, rag_inflight>>
    /\ UNCHANGED <<chatVars, loadVars, ml_papers_dict, retrieveVars>>

\* the indexing cell is started for the first time
start_indexing ==
    /\ index_pc = "idle"
    /\ enter_loop

\* the indexing cell is started once more after it has finished
rerun_indexing ==
    /\ index_pc = "done" /\ run = 1
    /\ rag_pc = "idle"
    /\ enter_loop

\* range(0, len(ml_papers_dict), batch_size) is exhausted
finish_indexing ==
    /\ index_pc = "loop"
    /\ i >= Len(ml_papers_dict)
    /\ index_pc' = "done"
    /\ UNCHANGED <<run, i, batch, batch_titles, batch_ids, batch_metadata,
                   batch_embeddings, draws, collection, before, handed, run_ids,
                   index_error, rag_inflight, index_log>>
    /\ UNCHANGED <<chatVars, loadVars, ml_papers_dict, retrieveVars>>

\* one pass of the loop body up to the call of embedding_model.encode: the
\* batch, its titles, ids and metadata
prepare_batch ==
    /\ index_pc = "loop"
    /\ i < Len(ml_papers_dict)
    /\ LET papers == BatchSlice(ml_papers_dict, i) IN
       \E d \in DrawChoices(papers) :
          LET titles == [j \in 1..Len(papers) |-> BatchTitle(papers[j])]
              ids    == [j \in 1..Len(papers) |-> PaperId(papers[j].Title, d[j])]
          IN  /\ batch' = papers
              /\ batch_titles' = titles
              /\ batch_ids' = ids
              /\ batch_metadata' = [j \in 1..Len(papers) |-> BatchMetadata(papers[j])]
              /\ draws' = d
              /\ run_ids' = [run_ids EXCEPT ![run] = @ \o ids]
    /\ rag_inflight' = Issue(rag_inflight, "encode")
    /\ index_log' = Append(index_log, Event("encode", "start", i))
    /\ index_pc' = "encode"
    /\ UNCHANGED <<run, i, batch_embeddings, collection, before, handed,
                   index_error>>
    /\ UNCHANGED <<chatVars, loadVars, ml_papers_dict, retrieveVars>>

\* embedding_model.encode(batch_titles) returns; collection.upsert is called
encode_return ==
    /\ index_pc = "encode"
    /\ batch_embeddings' = EncodeTexts(batch_titles)
    /\ rag_inflight' = Issue(Settle(rag_inflight), "upsert")
    /\ index_log' = index_log \o << Event("encode", "done", i),
                                    Event("upsert", "start", i) >>
    /\ index_pc' = "upsert"
    /\ UNCHANGED <<run, i, batch, batch_titles, batch_ids, batch_metadata,
                   draws, collection, before, handed, run_ids, index_error>>
    /\ UNCHANGED <<chatVars, loadVars, ml_papers_dict, retrieveVars>>

\* collection.upsert(...) stores the batch; the loop goes on with the next one
upsert_batch ==
    /\ index_pc = "upsert"
    /\ ~HasDuplicates(batch_ids)
    /\ before' = collection
    /\ collection' = Upsert(collection, batch_ids, batch_metadata, batch_titles,
                            batch_embeddings)
    /\ handed' = [k \in 1..Len(handed) |->
                    IF k \in (i + 1)..(i + Len(batch_ids))
                    THEN handed[k] + 1 ELSE handed[k]]
    /\ rag_inflight' = Settle(rag_inflight)
    /\ index_log' = Append(index_log, Event("upsert", "done", i))
    /\ i' = NextIndex(i)
    /\ index_pc' = "loop"
    /\ UNCHANGED <<run, batch, batch_titles, batch_ids, batch_metadata,
                   batch_embeddings, draws, run_ids, index_error>>
    /\ UNCHANGED <<chatVars, loadVars, ml_papers_dict, retrieveVars>>

\* collection.upsert(...) rejects a batch with a repeated id; the cell ends
\* with that exception
upsert_rejected ==
    /\ index_pc = "upsert"
    /\ HasDuplicates(batch_ids)
    /\ index_error' = "DuplicateIDError"
    /\ rag_inflight' = Settle(rag_inflight)
    /\ index_log' = Append(index_log, Event("upsert", "raised", i))
    /\ index_pc' = "raised"
    /\ UNCHANGED <<run, i, batch, batch_titles, batch_ids, batch_metadata,
                   batch_embeddings, draws, collection, before, handed, run_ids>>
    /\ UNCHANGED <<chatVars, loadVars, ml_papers_dict, retrieveVars>>

IndexNext ==
    \/ start_indexing
    \/ rerun_indexing
    \/ prepare_batch
    \/ encode_return
    \/ upsert_batch
    \/ upsert_rejected
    \/ finish_indexing

SpecIndex == IndexInit /\ [][IndexNext]_vars

\* the indexing cell is run once
IndexOnceNext ==
    \/ start_indexing
    \/ prepare_batch
    \/ encode_return
    \/ upsert_batch
    \/ upsert_rejected
    \/ finish_indexing

\* the interpreter goes on with the next statement, and embedding_model.encode
\* and collection.upsert come back from every call
SpecIndexFair == IndexInit /\ [][IndexOnceNext]_vars /\ WF_vars(IndexOnceNext)

----------------------------------------------------------------------------
(* RAG notebook, steps 3 and 4: the retriever test and the title suggestion *)

\* n_results of the title suggestion query is 10 in the notebook; the query
\* is the same for every number and is checked here for 1..MaxResults
MaxResults == 2

\* query_texts=["Software Engineering"], n_results=2 of the retriever test
SoftwareEngineering ==
    << "S", "o", "f", "t", "w", "a", "r", "e", " ",
       "E", "n", "g", "i", "n", "e", "e", "r", "i", "n", "g" >>
TestNResults == 2

\* paper titles the title suggestion cell is run for
RagQueries == { <<"a">>, <<"a", "b">> }

\* a record with an empty title, which the loop body provides for
EmptyTitleRecord ==
    [Title |-> <<>>, Description |-> <<"d">>, PaperURL |-> <<"e">>,
     TweetURL |-> <<"w">>, Abstract |-> NaN]

\* records the loop is run on before the retrieval cells: the records of the
\* loader with a title of one character, and the record with an empty title
LoopRecords == { r \in PaperRecords : Len(r.Title) = 1 } \cup { EmptyTitleRecord }

\* responses to the completion request of the title suggestion
\* the texts the completion may hold in the title-suggestion cell: those of
\* the chat flow, the empty text and a text of several characters
RagResponseTexts == ResponseTexts \cup { <<>>, <<"b", "a">> }

RagResponses ==
    { [choices |-> << [message |-> [content |-> text]] >>] : text \in RagResponseTexts }

embed_fn_other_model(input) == [j \in 1..Len(input) |-> << Len(input[j]) >>]

\* MyEmbeddingFunction.__call__(input): embedding_model.encode(input).tolist()
embed_fn(input) == EncodeTexts(input)

\* squared L2 distance of two vectors, the distance of the collection
Distance(u, v) ==
    SumSeq([c \in 1..Len(u) |-> (u[c] - v[c]) * (u[c] - v[c])])

\* the nearest-neighbour search of the store: the k documents nearest to q
\* (all documents when the store holds fewer), nearest first; the order of
\* documents at the same distance is the store's choice
Ranked(coll, q, k) ==
    { s \in [1..Min(k, Cardinality(coll)) -> coll] :
        /\ \A a, b \in DOMAIN s :
              a < b => /\ s[a] # s[b]
                       /\ Distance(s[a].embedding, q) <= Distance(s[b].embedding, q)
        /\ \A d \in coll :
              (\A a \in DOMAIN s : s[a] # d) =>
                  \A a \in DOMAIN s :
                     Distance(s[a].embedding, q) <= Distance(d.embedding, q) }

QueryResultsWholeStore(coll, q, k) ==
    { [ids |-> << [a \in 1..Len(s) |-> s[a].id] >>,
       documents |-> << [a \in 1..Len(s) |-> s[a].document] >>,
       distances |-> << [a \in 1..Len(s) |-> Distance(s[a].embedding, q)] >>] :
        s \in Ranked(coll, q, Cardinality(coll)) }

\* the result dict of collection.query for one query text: one list of ids,
\* of documents and of distances per query text
QueryResults(coll, q, k) ==
    { [ids |-> << [a \in 1..Len(s) |-> s[a].id] >>,
       documents |-> << [a \in 1..Len(s) |-> s[a].document] >>,
       distances |-> << [a \in 1..Len(s) |-> Distance(s[a].embedding, q)] >>] :
        s \in Ranked(coll, q, k) }

RECURSIVE JoinLinesLastFirst(_)
JoinLinesLastFirst(titles) ==
    IF titles = <<>> THEN <<>>
    ELSE IF Len(titles) = 1 THEN titles[1]
    ELSE JoinLinesLastFirst(Tail(titles)) \o <<"\n">> \o titles[1]

RECURSIVE JoinLines(_)
\* '\n'.join(titles)
JoinLines(titles) ==
    IF titles = <<>> THEN <<>>
    ELSE IF Len(titles) = 1 THEN titles[1]
    ELSE titles[1] \o <<"\n">> \o JoinLines(Tail(titles))

\* the f-string of the title suggestion: its literal parts (one token each)
\* around {user_query} and {short_titles}
TitleSuggestionPrompt(title, joined_titles) ==
    <<"[titles:PAPER_TITLE]">> \o title \o <<"[titles:SHORT_TITLES]">>
        \o joined_titles \o <<"[titles:SUGGESTED_TITLES]">>

JoinStrReversed(text) == [c \in 1..Len(text) |-> text[Len(text) + 1 - c]]

RECURSIVE JoinStr(_)
\* ''.join([str(r) for r in responses]): the characters of the text, joined
JoinStr(text) ==
    IF text = <<>> THEN <<>> ELSE <<Head(text)>> \o JoinStr(Tail(text))

\* the loop is run on any list of up to MaxRecords records; the store is empty
RetrieveInit ==
    /\ pc = "idle"
    /\ user_query = Unbound /\ menu_items = Unbound
    /\ reasoning = Unbound /\ extraction = Unbound
    /\ refinement = Unbound /\ verification = Unbound
    /\ result = PyNone /\ raised = None
    /\ inflight = <<>>
    /\ callLog = <<>>
    /\ lastResponse = <<>> /\ lastReturned = Unbound
    /\ requests = 0 /\ reqAtStart = 0
    /\ history = <<>> /\ prevLog = <<>>
    /\ csv_rows = <<>>
    /\ load_pc = "converted"
    /\ ml_papers = <<>>
    /\ ml_papers_dict \in SeqsUpTo(LoopRecords, MaxRecords)
    /\ index_pc = "idle" /\ run = 0 /\ i = 0
    /\ batch = <<>> /\ batch_titles = <<>> /\ batch_ids = <<>>
    /\ batch_metadata = <<>> /\ batch_embeddings = <<>> /\ draws = <<>>
    /\ collection = {} /\ before = {}
    /\ handed = <<>> /\ run_ids = << <<>>, <<>> >>
    /\ index_error = None
    /\ rag_inflight = <<>> /\ index_log = <<>>
    /\ rag_pc = "idle" /\ query_texts = <<>> /\ n_results = 0
    /\ query_embeddings = <<>>
    /\ retriever_results = NoResults /\ results = NoResults
    /\ rag_user_query = Unbound /\ short_titles = Unbound
    /\ prompt_template = Unbound /\ responses = Unbound
    /\ suggested_titles = Unbound /\ rag_raised = None

\* the retriever test cell: collection.query(query_texts=["Software
\* Engineering"], n_results=2) is called and embeds its query texts first
retriever_test ==
    /\ index_pc \in {"done", "raised"}
    /\ rag_pc = "idle"
    /\ query_texts' = << SoftwareEngineering >>
    /\ n_results' = TestNResults
    /\ rag_inflight' = Issue(rag_inflight, "encode")
    /\ rag_pc' = "test_embed"
    /\ UNCHANGED <<query_embeddings, retriever_results, rag_user_query, results,
                   short_titles, prompt_template, responses, suggested_titles,
                   rag_raised>>
    /\ UNCHANGED <<chatVars, loadVars, ml_papers_dict, indexLocals>>

\* embed_fn(query_texts) returns; the nearest-neighbour search is called
retriever_embedded ==
    /\ rag_pc = "test_embed"
    /\ query_embeddings' = embed_fn(query_texts)
    /\ rag_inflight' = Issue(Settle(rag_inflight), "query")
    /\ rag_pc' = "test_query"
    /\ UNCHANGED <<query_texts, n_results, retriever_results, rag_user_query,
                   results, short_titles, prompt_template, responses,
                   suggested_titles, rag_raised>>
    /\ UNCHANGED <<chatVars, loadVars, ml_papers_dict, indexLocals>>

\* the search returns: retriever_results is bound
retriever_return ==
    /\ rag_pc = "test_query"
    /\ retriever_results' \in QueryResults(collection, query_embeddings[1], n_results)
    /\ rag_inflight' = Settle(rag_inflight)
    /\ rag_pc' = "tested"
    /\ UNCHANGED <<query_texts, n_results, query_embeddings, rag_user_query,
                   results, short_titles, prompt_template, responses,
                   suggested_titles, rag_raised>>
    /\ UNCHANGED <<chatVars, loadVars, ml_papers_dict, indexLocals>>

\* the title suggestion cell: user_query is bound and
\* collection.query(query_texts=[user_query], n_results=k) is called
suggest_titles(q, k) ==
    /\ rag_pc = "tested"
    /\ rag_user_query' = q
    /\ query_texts' = << q >>
    /\ n_results' = k
    /\ rag_inflight' = Issue(rag_inflight, "encode")
    /\ rag_pc' = "suggest_embed"
    /\ UNCHANGED <<query_embeddings, retriever_results, results, short_titles,
                   prompt_template, responses, suggested_titles, rag_raised>>
    /\ UNCHANGED <<chatVars, loadVars, ml_papers_dict, indexLocals>>

\* embed_fn(query_texts) returns; the nearest-neighbour search is called
suggest_embedded ==
    /\ rag_pc = "suggest_embed"
    /\ query_embeddings' = embed_fn(query_texts)
    /\ rag_inflight' = Issue(Settle(rag_inflight), "query")
    /\ rag_pc' = "suggest_query"
    /\ UNCHANGED <<query_texts, n_results, retriever_results, rag_user_query,
                   results, short_titles, prompt_template, responses,
                   suggested_titles, rag_raised>>
    /\ UNCHANGED <<chatVars, loadVars, ml_papers_dict, indexLocals>>

\* the search returns: results is bound, the prompt is composed and
\* generate_response(prompt_template) is called
suggest_query_return ==
    /\ rag_pc = "suggest_query"
    /\ results' \in QueryResults(collection, query_embeddings[1], n_results)
    /\ short_titles' = JoinLines(results'.documents[1])
    /\ prompt_template' = TitleSuggestionPrompt(rag_user_query, short_titles')
    /\ rag_inflight' = Issue(Settle(rag_inflight), "completion")
    /\ rag_pc' = "completion"
    /\ UNCHANGED <<query_texts, n_results, query_embeddings, retriever_results,
                   rag_user_query, responses, suggested_titles, rag_raised>>
    /\ UNCHANGED <<chatVars, loadVars, ml_papers_dict, indexLocals>>

\* generate_response returns the text of the first choice
completion_return(response) ==
    /\ rag_pc = "completion"
    /\ responses' = FirstChoiceContent(response)
    /\ suggested_titles' = JoinStr(responses')
    /\ rag_inflight' = Settle(rag_inflight)
    /\ rag_pc' = "suggested"
    /\ UNCHANGED <<query_texts, n_results, query_embeddings, retriever_results,
                   rag_user_query, results, short_titles, prompt_template,
                   rag_raised>>
    /\ UNCHANGED <<chatVars, loadVars, ml_papers_dict, indexLocals>>

\* the provider fails: the exception leaves generate_response and the cell
completion_raise(err) ==
    /\ rag_pc = "completion"
    /\ rag_raised' = PropagatedError(err)
    /\ rag_inflight' = Settle(rag_inflight)
    /\ rag_pc' = "raised"
    /\ UNCHANGED <<query_texts, n_results, query_embeddings, retriever_results,
                   rag_user_query, results, short_titles, prompt_template,
                   responses, suggested_titles>>
    /\ UNCHANGED <<chatVars, loadVars, ml_papers_dict, indexLocals>>

RetrieveNext ==
    \/ start_indexing
    \/ prepare_batch
    \/ encode_return
    \/ upsert_batch
    \/ upsert_rejected
    \/ finish_indexing
    \/ retriever_test
    \/ retriever_embedded
    \/ retriever_return
    \/ \E q \in RagQueries, k \in 1..MaxResults : suggest_titles(q, k)
    \/ suggest_embedded
    \/ suggest_query_return
    \/ \E response \in RagResponses : completion_return(response)
    \/ \E err \in ProviderErrors : completion_raise(err)

SpecRetrieve == RetrieveInit /\ [][RetrieveNext]_vars

----------------------------------------------------------------------------
(* RAG notebook, step 2: properties *)

\* the documents the last upsert call described
LastUpsertDocs == UpsertDocs(batch_ids, batch_metadata, batch_titles, batch_embeddings)

\* the loop body has stored the batch that the batch locals hold
BatchStored == index_pc \in {"loop", "done"} /\ batch_ids # <<>>

\* C8: while the indexing loop runs, the records before the loop index have
\* each been handed to upsert exactly once and the others not yet, every batch
\* is the next records of the list in order, and when the loop has finished
\* every record has been handed to upsert exactly once.
C8_EveryRecordUpsertedOnce ==
    /\ index_pc \in {"loop", "encode", "upsert", "done", "raised"} =>
          /\ Len(handed) = Len(ml_papers_dict)
          /\ \A k \in 1..Len(handed) : handed[k] = IF k <= i THEN 1 ELSE 0
    /\ index_pc \in {"encode", "upsert", "raised"} =>
          /\ Len(batch_ids) \in 1..batch_size
          /\ i + Len(batch_ids) <= Len(ml_papers_dict)
          /\ \A j \in 1..Len(batch_ids) : batch[j] = ml_papers_dict[i + j]
    /\ index_pc = "done" => \A k \in 1..Len(ml_papers_dict) : handed[k] = 1

\* a first run has finished over a list that needs a full batch and a shorter
\* last one
C8_Witness ==
    /\ index_pc = "done"
    /\ run = 1
    /\ Len(ml_papers_dict) > batch_size
    /\ Len(ml_papers_dict) % batch_size # 0
    /\ Cardinality(collection) = Len(ml_papers_dict)

\* C9: the store holds at most one document per id; after an upsert the store
\* holds the documents of the call with their new title, embedding and
\* metadata, the stored documents with other ids are left as they were, and
\* the same upsert once more leaves the store unchanged.
C9_UpsertIdempotentOnId ==
    /\ \A d1, d2 \in collection : d1.id = d2.id => d1 = d2
    /\ BatchStored =>
          /\ LastUpsertDocs \subseteq collection
          /\ \A d \in before :
                (\A j \in 1..Len(batch_ids) : d.id # batch_ids[j]) => d \in collection
          /\ collection \subseteq (before \cup LastUpsertDocs)
          /\ Upsert(collection, batch_ids, batch_metadata, batch_titles,
                    batch_embeddings) = collection

\* an upsert has replaced a stored document by one with another title
C9_Witness ==
    /\ BatchStored
    /\ \E d \in before : \E j \in 1..Len(batch_ids) :
          /\ d.id = batch_ids[j]
          /\ d.document # batch_titles[j]
          /\ d \notin collection
    /\ Cardinality(collection) = Cardinality(before)

\* the ids given in a run, as a set
RunIdSet(r) == { run_ids[r][k] : k \in 1..Len(run_ids[r]) }

\* C10 as claimed: records with identical titles get different ids in
\* different indexing runs.
C10_SameTitleNewIdEveryRun ==
    \A k1 \in 1..Len(run_ids[1]) : \A k2 \in 1..Len(run_ids[2]) :
        ml_papers_dict[k1].Title = ml_papers_dict[k2].Title =>
            run_ids[1][k1] # run_ids[2][k2]

\* C10 (amended): the id of a record is the decimal string of the sum of its
\* title's character codes plus one offset per character, each drawn anew
\* from 1..10000 (so the ids of identical titles can differ between runs, and
\* need not); after a second run every id of the first run that the second run
\* did not draw again still names a stored document of the first run.
C10_RandomOffsetIds ==
    /\ index_pc \in {"encode", "upsert", "raised"} \/ BatchStored =>
          \A j \in 1..Len(batch_ids) :
             /\ Len(draws[j]) = Len(batch[j].Title)
             /\ \A c \in 1..Len(draws[j]) : draws[j][c] \in RandLo..RandHi
             /\ batch_ids[j] =
                   IntToStr(SumSeq([c \in 1..Len(batch[j].Title) |->
                                       Ord(batch[j].Title[c])])
                            + SumSeq(draws[j]))
    /\ (run = 2 /\ index_pc = "done") =>
          /\ \A k \in 1..Len(run_ids[1]) :
                run_ids[1][k] \notin RunIdSet(2) =>
                    \E d \in collection : \E k1 \in 1..Len(run_ids[1]) :
                       /\ d.id = run_ids[1][k]
                       /\ run_ids[1][k1] = d.id
                       /\ d.document = ml_papers_dict[k1].Title
          /\ Cardinality(collection) <= Len(run_ids[1]) + Len(run_ids[2])

\* a second run over the same list has finished and the store holds more
\* documents than the list has records: two documents have the same title
C10_Witness ==
    /\ run = 2
    /\ index_pc = "done"
    /\ Cardinality(collection) > Len(ml_papers_dict)
    /\ \E d1, d2 \in collection : d1.id # d2.id /\ d1.document = d2.document
    /\ run_ids[1] # run_ids[2]

\* the batch of the loop a record of the list falls in
BatchOf(k) == (k - 1) \div batch_size

\* C11: ids are not unique per record.  When a first run has finished, the
\* store holds one document per id given in the run, each with the title of
\* the last record that got the id (an earlier record with the same id was
\* overwritten), records with one id were in different batches, and so the
\* store never holds more documents than records and holds fewer exactly when
\* two records got the same id.
C11_CollidingIdsOverwrite ==
    (run = 1 /\ index_pc = "done") =>
        /\ Len(run_ids[1]) = Len(ml_papers_dict)
        /\ { d.id : d \in collection } = RunIdSet(1)
        /\ Cardinality(collection) = Cardinality(RunIdSet(1))
        /\ \A d \in collection :
              \E k \in 1..Len(run_ids[1]) :
                 /\ run_ids[1][k] = d.id
                 /\ d.document = BatchTitle(ml_papers_dict[k])
                 /\ \A k2 \in (k + 1)..Len(run_ids[1]) : run_ids[1][k2] # d.id
        /\ \A k1, k2 \in 1..Len(run_ids[1]) :
              (k1 # k2 /\ run_ids[1][k1] = run_ids[1][k2]) =>
                  BatchOf(k1) # BatchOf(k2)
        /\ Cardinality(collection) <= Len(ml_papers_dict)
        /\ (Cardinality(collection) < Len(ml_papers_dict)) <=>
              (\E k1, k2 \in 1..Len(run_ids[1]) :
                  k1 # k2 /\ run_ids[1][k1] = run_ids[1][k2])

\* a finished first run gave two records with different titles, in different
\* batches, the same id: the store holds the later one only and has fewer
\* documents than the list has records
C11_Witness ==
    /\ run = 1
    /\ index_pc = "done"
    /\ \E k1, k2 \in 1..Len(ml_papers_dict) :
          /\ k1 < k2
          /\ ml_papers_dict[k1].Title # ml_papers_dict[k2].Title
          /\ run_ids[1][k1] = run_ids[1][k2]
          /\ BatchOf(k1) # BatchOf(k2)
          /\ \E d \in collection :
                d.id = run_ids[1][k2] /\ d.document = ml_papers_dict[k2].Title
          /\ \A d \in collection : d.document # ml_papers_dict[k1].Title
    /\ Cardinality(collection) < Len(ml_papers_dict)

\* the starts and ends of the calls of one pass of the loop body, in the
\* order of the statements
PassEvents(at) ==
    << Event("encode", "start", at), Event("encode", "done", at),
       Event("upsert", "start", at), Event("upsert", "done", at) >>

\* C12: the calls of a run happen one batch after the other, in a batch
\* the embedding before the upsert: the starts and ends logged so far are
\* encode start, encode end, upsert start, upsert end of the first batch, then
\* of the second, and so on (the last entry is a rejected upsert when the cell
\* ended with it); when the upsert is called the embeddings of the batch's
\* titles have been computed, and between two passes nothing is in flight.
C12_BatchesStrictlySequential ==
    /\ \A p \in 1..Len(index_log) :
          LET at == ((p - 1) \div 4) * batch_size
              expected == PassEvents(at)[((p - 1) % 4) + 1]
          IN  \/ index_log[p] = expected
              \/ /\ p = Len(index_log)
                 /\ index_pc = "raised"
                 /\ index_log[p] = Event("upsert", "raised", at)
    /\ index_pc = "encode" =>
          /\ Len(index_log) % 4 = 1
          /\ index_log[Len(index_log)] = Event("encode", "start", i)
          /\ rag_inflight = <<"encode">>
    /\ index_pc = "upsert" =>
          /\ Len(index_log) % 4 = 3
          /\ index_log[Len(index_log)] = Event("upsert", "start", i)
          /\ rag_inflight = <<"upsert">>
          /\ Len(batch_embeddings) = Len(batch_titles)
          /\ \A j \in 1..Len(batch_titles) :
                batch_embeddings[j] = Encode(batch_titles[j])
    /\ index_pc \in {"loop", "done"} =>
          /\ Len(index_log) % 4 = 0
          /\ i = (Len(index_log) \div 4) * batch_size
          /\ rag_inflight = <<>>

\* the embedding of the second batch has started: the embedding and the
\* upsert of the first batch have ended before
C12_Witness ==
    /\ index_pc = "encode"
    /\ i = batch_size
    /\ Len(index_log) = 5
    /\ index_log[2] = Event("encode", "done", 0)
    /\ index_log[4] = Event("upsert", "done", 0)
    /\ index_log[5] = Event("encode", "start", batch_size)
    /\ Cardinality(collection) = batch_size

----------------------------------------------------------------------------
(* RAG notebook, steps 3 and 4: properties *)

\* the call the RAG notebook waits for at its position, if any
PendingCall ==
    IF index_pc = "encode" THEN <<"encode">>
    ELSE IF index_pc = "upsert" THEN <<"upsert">>
    ELSE IF rag_pc \in {"test_embed", "suggest_embed"} THEN <<"encode">>
    ELSE IF rag_pc \in {"test_query", "suggest_query"} THEN <<"query">>
    ELSE IF rag_pc = "completion" THEN <<"completion">>
    ELSE <<>>

IsTopK(res, coll, q, k) ==
    /\ Len(res.ids) = 1 /\ Len(res.documents) = 1 /\ Len(res.distances) = 1
    /\ LET ids == res.ids[1]
           docs == res.documents[1]
           dists == res.distances[1]
       IN  /\ Len(docs) <= k
           /\ Len(docs) = Min(k, Cardinality(coll))
           /\ Len(ids) = Len(docs) /\ Len(dists) = Len(docs)
           /\ coll = {} => docs = <<>>
           /\ \A a \in 1..Len(docs) :
                 \E d \in coll : /\ d.id = ids[a]
                                 /\ d.document = docs[a]
                                 /\ Distance(d.embedding, q) = dists[a]
           /\ \A a, b \in 1..Len(docs) :
                 a < b => ids[a] # ids[b] /\ dists[a] <= dists[b]
           /\ \A d \in coll :
                 (\A a \in 1..Len(ids) : ids[a] # d.id) =>
                     \A a \in 1..Len(dists) : dists[a] <= Distance(d.embedding, q)

\* the retriever test has bound retriever_results
TestReturned == rag_pc \notin {"idle", "test_embed", "test_query"}

\* the query of the title suggestion has bound results
SuggestQueryReturned == rag_pc \in {"completion", "suggested", "raised"}

\* C14: a query for k results returns min(k, number of stored documents)
\* documents of the store, hence at most k and none from an empty store, no
\* document twice, in order of non-decreasing distance to the embedding of the
\* query text (non-increasing similarity), and no stored document left out is
\* nearer than a returned one.
C14_QueryReturnsNearestK ==
    /\ TestReturned =>
          IsTopK(retriever_results, collection, Encode(SoftwareEngineering),
                 TestNResults)
    /\ SuggestQueryReturned =>
          /\ n_results \in 1..MaxResults
          /\ IsTopK(results, collection, Encode(rag_user_query), n_results)

\* a query for two results over a store of three documents has returned the
\* two nearest, the nearer first, and left out the farthest
C14_Witness ==
    /\ SuggestQueryReturned
    /\ Cardinality(collection) = 3
    /\ n_results = 2
    /\ Len(results.documents[1]) = 2
    /\ results.distances[1][1] < results.distances[1][2]
    /\ \E d \in collection :
          Distance(d.embedding, query_embeddings[1]) > results.distances[1][2]

\* the indexing cell has run once on a list of two records whose first title
\* the embedding places nearer to the title suggestion's query text than the
\* second, and the query for one result has returned
TwoTitlesQueried ==
    /\ run = 1
    /\ Len(ml_papers_dict) = 2
    /\ SuggestQueryReturned
    /\ n_results = 1
    /\ Distance(Encode(BatchTitle(ml_papers_dict[1])), Encode(rag_user_query))
          < Distance(Encode(BatchTitle(ml_papers_dict[2])), Encode(rag_user_query))

\* C19 as claimed: from an empty store, after the indexing cell has run on two
\* titles of which the embedding places the first nearer to the query text, a
\* query for one result returns exactly the first title.
C19_NearerTitleReturned ==
    (index_pc \in {"done", "raised"} /\ TwoTitlesQueried) =>
        results.documents = << << BatchTitle(ml_papers_dict[1]) >> >>

\* what holds of the scenario: the first title is returned whenever the
\* indexing loop has finished, and nothing is returned when the upsert of the
\* two titles was rejected because both got the same id
NearerTitleReturnedWhenIndexed ==
    /\ (index_pc = "done" /\ TwoTitlesQueried) =>
          results.documents = << << BatchTitle(ml_papers_dict[1]) >> >>
    /\ (index_pc = "raised" /\ TwoTitlesQueried) =>
          /\ batch_ids[1] = batch_ids[2]
          /\ collection = {}
          /\ results.documents = << <<>> >>

\* where the j-th of the joined titles starts in the joined text
LineStart(titles, j) == SumSeq([m \in 1..(j - 1) |-> Len(titles[m]) + 1]) + 1

\* the prompt of the title suggestion is made of the paper title and the
\* retrieved titles as they are bound: the paper title after the PAPER_TITLE
\* part, then the SHORT_TITLES part, then the retrieved titles in the order of
\* the query result, one per line, then the SUGGESTED_TITLES part
PromptComposedFromInputs ==
    SuggestQueryReturned =>
        LET titles == results.documents[1]
            n == Len(titles)
        IN  /\ rag_user_query = query_texts[1]
            /\ Len(short_titles) = SumSeq([m \in 1..n |-> Len(titles[m])])
                                      + (IF n = 0 THEN 0 ELSE n - 1)
            /\ \A j \in 1..n :
                  /\ SubSeq(short_titles, LineStart(titles, j),
                            LineStart(titles, j) + Len(titles[j]) - 1) = titles[j]
                  /\ j < n =>
                        short_titles[LineStart(titles, j) + Len(titles[j])] = "\n"
            /\ prompt_template =
                  <<"[titles:PAPER_TITLE]">> \o rag_user_query
                     \o <<"[titles:SHORT_TITLES]">> \o short_titles
                     \o <<"[titles:SUGGESTED_TITLES]">>

\* the step that composes the prompt, and every later step of the cell, leaves
\* the paper title and the store as they are, and once bound the query result
\* and the prompt stay as they are
ComposingChangesNothing ==
    /\ (rag_pc = "suggest_query" \/ SuggestQueryReturned) =>
          /\ rag_user_query' = rag_user_query
          /\ collection' = collection
    /\ SuggestQueryReturned =>
          /\ results' = results
          /\ short_titles' = short_titles
          /\ prompt_template' = prompt_template

\* C15: the prompt of the title suggestion is a function of the paper title
\* and the retrieved titles alone: in every state it is the template filled
\* with the bound paper title and the bound retrieved titles joined by
\* newlines in retrieval order, and composing it changes neither of the two
\* nor the store.
C15_PromptComposerIsPure ==
    []PromptComposedFromInputs /\ [][ComposingChangesNothing]_vars

\* a prompt was composed from two retrieved titles with different texts, the
\* nearer first
C15_Witness ==
    /\ SuggestQueryReturned
    /\ Len(results.documents[1]) = 2
    /\ results.documents[1][1] # results.documents[1][2]
    /\ results.distances[1][1] < results.distances[1][2]
    /\ short_titles = results.documents[1][1] \o <<"\n">> \o results.documents[1][2]
    /\ Cardinality(collection) >= 2

\* the length of the vectors of the embedding model
EmbeddingDim == Len(Encode(<<>>))

\* the last collection.query call has embedded its query texts
QueryEmbedded ==
    rag_pc \in {"test_query", "tested", "suggest_query", "completion",
                "suggested", "raised"}

\* C18: every stored document has the vector the embedding model gives its
\* text, of the model's length; the vectors of a batch have that length; and
\* a query searches with the vector the same model gives the query text.
C18_OneEmbeddingModel ==
    /\ \A d \in collection :
          /\ Len(d.embedding) = EmbeddingDim
          /\ d.embedding = Encode(d.document)
    /\ index_pc \in {"upsert", "loop", "done", "raised"} =>
          \A j \in 1..Len(batch_embeddings) :
             Len(batch_embeddings[j]) = EmbeddingDim
    /\ QueryEmbedded =>
          /\ Len(query_embeddings) = Len(query_texts)
          /\ \A t \in 1..Len(query_texts) :
                /\ query_embeddings[t] = Encode(query_texts[t])
                /\ Len(query_embeddings[t]) = EmbeddingDim

\* documents of two batches are stored and a query has embedded its text and
\* returned documents
C18_Witness ==
    /\ index_pc = "done"
    /\ Len(index_log) = 8
    /\ Cardinality(collection) = 3
    /\ rag_pc = "completion"
    /\ query_embeddings = << Encode(rag_user_query) >>
    /\ \E d \in collection : d.embedding # query_embeddings[1]
    /\ Len(results.documents[1]) >= 1

\* C20: a record with an empty title is handed to the store with the text
\* "No Title" and the id "0", the decimal string of the empty sum; a record
\* with another title is handed over with its title as text and never with
\* the id "0"; so the store holds at most one document for all records with
\* an empty title, and its text is "No Title".
C20_EmptyTitleIndexedAsNoTitle ==
    /\ index_pc \in {"encode", "upsert", "raised"} \/ BatchStored =>
          \A j \in 1..Len(batch) :
             /\ batch[j].Title = <<>> =>
                   batch_titles[j] = NoTitle /\ batch_ids[j] = <<"0">>
             /\ batch[j].Title # <<>> =>
                   batch_titles[j] = batch[j].Title /\ batch_ids[j] # <<"0">>
    /\ \A k \in 1..Len(run_ids[1]) :
          ml_papers_dict[k].Title = <<>> <=> run_ids[1][k] = <<"0">>
    /\ \A d \in collection :
          /\ d.id = <<"0">> <=> d.document = NoTitle
          /\ d.id # <<"0">> =>
                \E k \in 1..Len(ml_papers_dict) : d.document = ml_papers_dict[k].Title
    /\ Cardinality({ d \in collection : d.document = NoTitle }) <= 1

\* the loop has finished on a list with two records with an empty title, in
\* different batches, and a record with a title: the store holds one document
\* "No Title" with the id "0" and the other record's title unchanged
C20_Witness ==
    /\ index_pc = "done"
    /\ Len(ml_papers_dict) = 3
    /\ ml_papers_dict[1].Title = <<>>
    /\ ml_papers_dict[2].Title # <<>>
    /\ ml_papers_dict[3].Title = <<>>
    /\ BatchOf(1) # BatchOf(3)
    /\ run_ids[1][1] = <<"0">> /\ run_ids[1][3] = <<"0">>
    /\ Cardinality(collection) = 2
    /\ \E d \in collection : d.id = <<"0">> /\ d.document = NoTitle
    /\ \E d \in collection : d.document = ml_papers_dict[2].Title

\* C21: when collection.upsert is called (and when it has rejected the call)
\* the lists of ids, metadata, documents and embeddings have the length of the
\* batch, between 1 and batch_size; position j of each is made from record j
\* of the batch, which is record i + j of the list: the document is the
\* record's title text, the id the sum over the record's title, the metadata
\* the record's url and abstract, the embedding the vector of the document;
\* and a batch holds batch_size records unless it is the last one, which
\* holds the records that are left.
C21_UpsertListsAligned ==
    index_pc \in {"upsert", "raised"} =>
        /\ Len(batch) \in 1..batch_size
        /\ Len(batch_ids) = Len(batch)
        /\ Len(batch_metadata) = Len(batch)
        /\ Len(batch_titles) = Len(batch)
        /\ Len(batch_embeddings) = Len(batch)
        /\ \A j \in 1..Len(batch) :
              /\ batch[j] = ml_papers_dict[i + j]
              /\ batch_titles[j] =
                    (IF batch[j].Title = <<>> THEN NoTitle ELSE batch[j].Title)
              /\ batch_ids[j] =
                    IntToStr(SumSeq([c \in 1..Len(batch[j].Title) |->
                                        Ord(batch[j].Title[c]) + draws[j][c]]))
              /\ batch_metadata[j].url = batch[j].PaperURL
              /\ batch_metadata[j].abstract = batch[j].Abstract
              /\ batch_embeddings[j] = Encode(batch_titles[j])
        /\ i % batch_size = 0
        /\ Len(batch) = (IF i + batch_size <= Len(ml_papers_dict)
                         THEN batch_size ELSE Len(ml_papers_dict) - i)

\* the upsert of a last batch that is shorter than batch_size is called, after
\* a full first batch of records with different titles and urls was stored
C21_Witness ==
    /\ index_pc = "upsert"
    /\ run = 1
    /\ i = batch_size
    /\ Len(batch) = Len(ml_papers_dict) - batch_size
    /\ Len(batch) < batch_size
    /\ Len(batch_embeddings) = Len(batch)
    /\ Cardinality(collection) = batch_size
    /\ \E d1, d2 \in collection :
          d1.embedding # d2.embedding /\ d1.metadata # d2.metadata

\* the upsert calls of this run that have returned
UpsertsDone ==
    Cardinality({ p \in 1..Len(index_log) :
                    index_log[p] = Event("upsert", "done", index_log[p].at) })

\* the batches of a list of n records: ceil(n / batch_size)
BatchesOf(n) == (n + batch_size - 1) \div batch_size

ChainRunning == pc \in {"reasoning", "extraction", "refinement", "verification"}

\* the counts at the end of the two pipelines: a loop that has finished made
\* one upsert per batch, a loop that is running no more than that, and a cell
\* that ended otherwise ended with a rejected upsert; a chain call that has
\* returned made four completion calls that all returned, and one that ended
\* otherwise ended with a failed completion call
TerminationCounts ==
    /\ index_pc \in {"loop", "encode", "upsert", "done", "raised"} =>
          UpsertsDone <= BatchesOf(Len(ml_papers_dict))
    /\ index_pc = "done" =>
          /\ UpsertsDone = BatchesOf(Len(ml_papers_dict))
          /\ Len(ml_papers_dict) = 0 => UpsertsDone = 0
          /\ rag_inflight = <<>>
    /\ index_pc = "raised" =>
          /\ index_log # <<>>
          /\ index_log[Len(index_log)].ev = "raised"
    /\ pc = "done" =>
          /\ Len(callLog) = 4
          /\ requests - reqAtStart = 4
          /\ \A k \in 1..4 : callLog[k].error = None /\ callLog[k].returned # Unbound
          /\ result # PyNone
    /\ pc = "raised" =>
          /\ callLog # <<>>
          /\ callLog[Len(callLog)].error # None

C23_JoinIsIdentityOnResponse ==
    rag_pc = "suggested" =>
        /\ responses \in RagResponseTexts
        /\ Len(suggested_titles) = Len(responses)
        /\ \A c \in 1..Len(responses) : suggested_titles[c] = responses[c]

\* a response of several different characters has been joined
C23_Witness ==
    /\ rag_pc = "suggested"
    /\ Len(responses) >= 2
    /\ responses[1] # responses[2]
    /\ suggested_titles = responses

=============================================================================
